---- MODULE Spec2Model ----
(***************************************************************************)
(* Payment lifecycle of the payments service: PaymentsService              *)
(* (createPayment, updatePaymentStatus, handleWebhook) over the            *)
(* PaymentsRepository store (Payment and WebhookEvent tables) and the      *)
(* redis lock of UtilsService.  Every await of a handler is one step of a  *)
(* worker, so that concurrent requests interleave at the store calls.      *)
(***************************************************************************)
EXTENDS Integers, FiniteSets, Sequences, TLC

\* ------------------------------------------------------------------ bounds
MaxCalls == 3

\* ------------------------------------------------------------- value sets
Workers == {"w1", "w2"}
Refs == {"PAY-1", "PAY-2"}
TxnIds == {"T1", "T2"}

PaymentStatus == {"INITIATED", "PENDING", "SUCCESS", "FAILED"}
Terminal == {"SUCCESS", "FAILED"}

Null == "NULL"
Undefined == "UNDEF"
EmptyString == ""

SeededCurrencies == {"UGX", "USD"}
CurrencyNames == {"UGX", "XYZ"}
SeededMethods == [n \in {"MOBILE_MONEY"} |-> "MTN_UGANDA"]
MethodNames == {"MOBILE_MONEY", "CARD"}
MtnProviderName == "MTN"
providerMap == {MtnProviderName, "MTN_UGANDA"}
\* a payment method table with one row more than the seed, whose provider
\* has no adapter
MethodsWithUnregistered ==
  [n \in {"MOBILE_MONEY", "CARD"} |->
     IF n = "MOBILE_MONEY" THEN "MTN_UGANDA" ELSE "AIRTEL_UGANDA"]

VARIABLES payments, webhookEvents, eventRows, locks, pc, loc, refs, calls,
          paymentMethods, paymentRows, guard, request, users, authCall

vars == <<payments, webhookEvents, eventRows, locks, pc, loc, refs, calls,
          paymentMethods, paymentRows, guard, request, users, authCall>>

\* --------------------------------------------------------- pure functions
validTransitions ==
  [s \in PaymentStatus |->
     CASE s = "INITIATED" -> {"PENDING"}
       [] s = "PENDING" -> {"SUCCESS", "FAILED"}
       [] s = "SUCCESS" -> {}
       [] s = "FAILED" -> {}]

validateStateTransition_AllowSame(currentStatus, newStatus) ==
  newStatus \in validTransitions[currentStatus] \/ newStatus = currentStatus

validateStateTransition_SkipPending(currentStatus, newStatus) ==
  \/ newStatus \in validTransitions[currentStatus]
  \/ currentStatus = "INITIATED" /\ newStatus \in Terminal

validateStateTransition(currentStatus, newStatus) ==
  newStatus \in validTransitions[currentStatus]

\* ------------------------------------------------------------ the store
\* Payment row: the columns the service writes after creation.
PaymentRow(status, ptid, pname) ==
  [status |-> status, provider_transaction_id |-> ptid, provider_name |-> pname]

NoPayment == PaymentRow("NONE", Null, Null)

\* the three columns above of a stored row
Columns(row) ==
  PaymentRow(row.status, row.provider_transaction_id, row.provider_name)

\* repository.create: a new row in INITIATED, with the columns that are set
\* at creation only
create(ps, ref, currency, method) ==
  [r \in DOMAIN ps \cup {ref} |->
     IF r = ref
       THEN [status |-> "INITIATED", provider_transaction_id |-> Null,
             provider_name |-> Null, reference_id |-> ref,
             currency |-> currency, payment_method |-> method]
       ELSE ps[r]]

\* repository.findByReference: the row, or the "not found" signal
findByReference_Never(ps, ref) == NoPayment

findByReference(ps, ref) ==
  IF ref \in DOMAIN ps THEN ps[ref] ELSE NoPayment

\* repository.updateByReference: prisma skips the fields that are undefined
updateByReference_StatusOnly(ps, ref, data) ==
  [ps EXCEPT ![ref] =
     [@ EXCEPT !.status = IF data.status = Undefined THEN @ ELSE data.status]]

updateByReference_Overwrite(ps, ref, data) ==
  [ps EXCEPT ![ref] =
     [status |-> IF data.status = Undefined THEN @.status ELSE data.status,
      provider_transaction_id |->
        IF data.provider_transaction_id = Undefined
          THEN @.provider_transaction_id ELSE data.provider_transaction_id,
      provider_name |-> IF data.provider_name = Undefined
                          THEN @.provider_name ELSE data.provider_name,
      reference_id |-> @.reference_id, currency |-> Null,
      payment_method |-> Null]]

updateByReference(ps, ref, data) ==
  [ps EXCEPT ![ref] =
     [@ EXCEPT
        !.status = IF data.status = Undefined THEN @ ELSE data.status,
        !.provider_transaction_id =
          IF data.provider_transaction_id = Undefined
            THEN @ ELSE data.provider_transaction_id,
        !.provider_name = IF data.provider_name = Undefined
                            THEN @ ELSE data.provider_name]]

WebhookRow(status, ptid, processed) ==
  [status |-> status, provider_transaction_id |-> ptid, is_processed |-> processed]

NoWebhook == WebhookRow("NONE", Null, FALSE)

\* repository.findWebhookEvent
findWebhookEvent(evs, ref) ==
  IF ref \in DOMAIN evs THEN evs[ref] ELSE NoWebhook

\* handleWebhook's fast-path test: existingWebhook && existingWebhook.is_processed
alreadyProcessed_Never(existingWebhook) == FALSE

alreadyProcessed(existingWebhook) ==
  existingWebhook.status # "NONE" /\ existingWebhook.is_processed

\* webhookEvent.upsert inside processWebhookTransaction: the create branch is
\* taken when no row has the payment_reference_id, the update branch otherwise
upsertInserts_Always(evs, ref) == TRUE

upsertInserts(evs, ref) == ref \notin DOMAIN evs

upsertWebhookEvent_Unprocessed(evs, ref, status, ptid) ==
  IF ~upsertInserts(evs, ref)
    THEN [evs EXCEPT ![ref] = [@ EXCEPT !.is_processed = TRUE, !.status = status]]
    ELSE [r \in DOMAIN evs \cup {ref} |->
            IF r = ref THEN WebhookRow(status, ptid, FALSE) ELSE evs[r]]

upsertWebhookEvent(evs, ref, status, ptid) ==
  IF ~upsertInserts(evs, ref)
    THEN [evs EXCEPT ![ref] = [@ EXCEPT !.is_processed = TRUE, !.status = status]]
    ELSE [r \in DOMAIN evs \cup {ref} |->
            IF r = ref THEN WebhookRow(status, ptid, TRUE) ELSE evs[r]]

\* the unique index WebhookEvent_provider_transaction_id_key
upsertViolatesUnique_Never(evs, ref, ptid) == FALSE

upsertViolatesUnique(evs, ref, ptid) ==
  /\ ref \notin DOMAIN evs
  /\ \E r \in DOMAIN evs : evs[r].provider_transaction_id = ptid

\* redisLockService.lockOnce: set-if-absent with expiry
redisLock_AlwaysGranted(lks, ref) == TRUE

redisLock_Global(lks, ref) == \A r \in DOMAIN lks : ~lks[r]

redisLock(lks, ref) == ~lks[ref]

\* ------------------------------------------------------- worker records
\* The request a worker is serving: its inputs (op, ref, status, ptid), the
\* handler's locals (cur: the status findByReference returned; provider) and
\* its outcome (result, ret), plus what the properties below need to know of
\* the call's history:
\*   wrote          the call has written the Payment row
\*   fresh          no one has written the Payment row since the call read it
\*   sameRead       the operation that validated against the same stored row
\*                  as this call and wrote it first ("none" when there is none)
\*   leaseValid     the lease the call acquired has not run out
\*   afterProcessed a processed WebhookEvent existed when the lock was taken
\*   fastPath       the call took the idempotent fast path
\*   repeat         the worker's previous call was a successful handleWebhook
\*                  with the same payload; prevRet is what that call returned
\* the Authorization header split at the blank; both parts undefined when
\* the request has no such header
NoAuthorization == [type |-> Undefined, token |-> Undefined]

\* AuthGuard's view of a request: no request yet
IdleGuard ==
  [at |-> "idle", endpoint |-> "NONE", authorization |-> NoAuthorization,
   answer |-> "NONE"]

IdleLoc ==
  [op |-> "none", ref |-> "PAY-1", status |-> "NONE", ptid |-> Undefined,
   cur |-> "NONE", result |-> "none", ret |-> NoPayment,
   wrote |-> FALSE, fresh |-> FALSE, sameRead |-> "none", leaseValid |-> FALSE,
   afterProcessed |-> FALSE, fastPath |-> FALSE, repeat |-> FALSE,
   prevRet |-> NoPayment, provider |-> Null,
   currency |-> "NONE", method |-> "NONE", invoked |-> 0, threw |-> FALSE,
   heldAtLock |-> FALSE]

\* POST /payments before the ValidationPipe has a body to look at
NoAmount == [kind |-> "undefined", n |-> 0]

IdleRequest ==
  [stage |-> "none",
   dto |-> [amount |-> NoAmount, currency |-> Undefined,
            payment_method |-> Undefined, customer_phone |-> Undefined,
            customer_email |-> Undefined, unknownProperty |-> FALSE],
   status |-> 0, handler |-> FALSE]

\* the auth service: no call in progress
NoToken == [kind |-> "none", sub |-> 0]

\* ghost fields of a call:
\*   taken    register: the phone number or the supplied email belonged to a
\*            stored user when the call was made
\*   created  register: the call has stored a user
\*   stored   verifyToken: the subject was a stored user when it was looked up
IdleAuth ==
  [op |-> "none", pc |-> "done", phone_number |-> Undefined, email |-> Undefined,
   token |-> NoToken, sub |-> 0, result |-> "none", error |-> Undefined,
   valid |-> FALSE, user_id |-> 0, taken |-> FALSE, created |-> FALSE,
   stored |-> FALSE]

Init ==
  /\ payments = <<>>
  /\ webhookEvents = <<>>
  /\ eventRows = [r \in Refs |-> 0]
  /\ locks = [r \in Refs |-> FALSE]
  /\ pc = [w \in Workers |-> "done"]
  /\ guard = [w \in Workers |-> IdleGuard]
  /\ loc = [w \in Workers |-> IdleLoc]
  /\ refs = {"PAY-1"}
  /\ calls = 0
  /\ paymentMethods = SeededMethods
  /\ paymentRows = [r \in Refs |-> 0]
  /\ request = IdleRequest
  /\ users = <<>>
  /\ authCall = [w \in Workers |-> IdleAuth]

\* a worker may take the next request
CanStart(w) == pc[w] = "done" /\ calls < MaxCalls

Begin(w, op, ref, status, ptid) ==
  [IdleLoc EXCEPT !.op = op, !.ref = ref, !.status = status, !.ptid = ptid]

Finish(l, result, ret) ==
  [l EXCEPT !.result = result, !.ret = ret, !.provider = Null,
            !.leaseValid = FALSE, !.fresh = FALSE]

\* worker w writes the Payment row of ref: every other call that has read the
\* row and not yet written it now holds a stale copy
Reading(o) == pc[o] \in {"ups_update", "wh_tx_upsert", "wh_tx_update"}

Creating(o) == pc[o] \in {"cp_initiate", "cp_update"}

NoteWrite(lc, w, ref) ==
  [o \in Workers |->
     IF o # w /\ Reading(o) /\ lc[o].ref = ref /\ lc[o].fresh
       THEN [lc[o] EXCEPT !.fresh = FALSE,
                          !.sameRead = IF Reading(w) /\ loc[w].fresh
                                         THEN loc[w].op ELSE "none"]
       ELSE IF o # w /\ Creating(o) /\ lc[o].ref = ref
         THEN [lc[o] EXCEPT !.fresh = FALSE]
         ELSE lc[o]]

\* prisma.$transaction: the upsert and the payment update become visible
\* together at commit; a failure before commit rolls everything back.
processWebhookTransaction_NoRollback(evs, ps, ref, status, ptid, committed) ==
  IF committed
    THEN <<upsertWebhookEvent(evs, ref, status, ptid),
           updateByReference(ps, ref,
             [status |-> status, provider_transaction_id |-> ptid,
              provider_name |-> Undefined])>>
    ELSE <<upsertWebhookEvent(evs, ref, status, ptid), ps>>

processWebhookTransaction_KeepTxnId(evs, ps, ref, status, ptid, committed) ==
  IF committed
    THEN <<upsertWebhookEvent(evs, ref, status, ptid),
           updateByReference(ps, ref,
             [status |-> status, provider_transaction_id |-> Undefined,
              provider_name |-> Undefined])>>
    ELSE <<evs, ps>>

processWebhookTransaction(evs, ps, ref, status, ptid, committed) ==
  IF committed
    THEN <<upsertWebhookEvent(evs, ref, status, ptid),
           updateByReference(ps, ref,
             [status |-> status, provider_transaction_id |-> ptid,
              provider_name |-> Undefined])>>
    ELSE <<evs, ps>>

\* The HTTP status of a call's outcome: the status of the HttpException the
\* service throws, which HttpExceptionFilter passes on; 409 for the unique
\* constraint error of prisma, 500 for any other error, 200 for a return.
getStatus(result) ==
  CASE result = "NotFound" -> 404
    [] result = "InvalidStateTransition" -> 400
    [] result = "AlreadyProcessing" -> 400
    [] result = "StoreError" -> 409
    [] result = "ProviderError" -> 500
    [] OTHER -> 200

\* ------------------------------------------------------------ createPayment
\* the two lookups by name; null when the name is not in the table
getCurrencyByName_Any(name) == TRUE

\* Payment_reference_id_key rejects an insert whose reference is stored
createViolatesUnique_Never(ps, ref) == FALSE

createViolatesUnique(ps, ref) == ref \in DOMAIN ps

getCurrencyByName(name) == name \in SeededCurrencies

getPaymentMethodByName(name) == name \in DOMAIN paymentMethods

\* generatePaymentReference + currency / payment method lookup + repository.create
CreatePayment(w) ==
  /\ CanStart(w)
  /\ \E currency \in CurrencyNames, method \in MethodNames, ref \in refs :
       LET l == [Begin(w, "createPayment", ref, "INITIATED", Undefined)
                   EXCEPT !.currency = currency, !.method = method] IN
       /\ calls' = calls + 1
       /\ IF ~getCurrencyByName(currency) \/ ~getPaymentMethodByName(method)
            THEN /\ loc' = [loc EXCEPT ![w] = Finish(l, "NotFound", NoPayment)]
                 /\ pc' = [pc EXCEPT ![w] = "done"]
                 /\ UNCHANGED <<payments, paymentRows, request, users, authCall>>
            ELSE IF createViolatesUnique(payments, ref)
              THEN /\ loc' = [loc EXCEPT ![w] =
                               Finish(l, "StoreError", NoPayment)]
                   /\ pc' = [pc EXCEPT ![w] = "done"]
                   /\ UNCHANGED <<payments, paymentRows, request, users, authCall>>
              ELSE /\ payments' = create(payments, ref, currency, method)
                   /\ paymentRows' = [paymentRows EXCEPT ![ref] = @ + 1]
                   /\ loc' = [loc EXCEPT ![w] =
                               [l EXCEPT !.wrote = TRUE, !.fresh = TRUE,
                                         !.provider = paymentMethods[method]]]
                   /\ pc' = [pc EXCEPT ![w] = "cp_initiate"]
  /\ UNCHANGED <<webhookEvents, locks, refs, paymentMethods, guard, eventRows, request, users,
                 authCall>>

\* providerMap.get(name): undefined when no adapter is registered under name
providerMapHas_Any(name) == TRUE

providerMapHas(name) == name \in providerMap

\* initiatePayment: provider lookup and provider.initiatePayment
InitiatePayment_Provider_Retry(w) ==
  /\ pc[w] = "cp_initiate"
  /\ IF ~providerMapHas(loc[w].provider)
       THEN /\ loc' = [loc EXCEPT ![w] = Finish(@, "NotFound", NoPayment)]
            /\ pc' = [pc EXCEPT ![w] = "done"]
       ELSE \/ \E t \in TxnIds :
                 /\ loc' = [loc EXCEPT ![w] =
                             [@ EXCEPT !.status = "PENDING", !.ptid = t,
                                       !.invoked = @ + 1]]
                 /\ pc' = [pc EXCEPT ![w] = "cp_update"]
            \/ /\ loc' = [loc EXCEPT ![w] =
                           [@ EXCEPT !.status = "FAILED", !.ptid = EmptyString,
                                     !.invoked = @ + 1]]
               /\ pc' = [pc EXCEPT ![w] = "cp_update"]
            \/ /\ loc[w].invoked = 0
               /\ loc' = [loc EXCEPT ![w] = [@ EXCEPT !.invoked = @ + 1]]
               /\ UNCHANGED pc
            \/ /\ loc[w].invoked > 0
               /\ loc' = [loc EXCEPT ![w] =
                           Finish([@ EXCEPT !.invoked = @ + 1, !.threw = TRUE],
                                  "ProviderError", NoPayment)]
               /\ pc' = [pc EXCEPT ![w] = "done"]
  /\ UNCHANGED <<payments, webhookEvents, locks, refs, paymentMethods, guard, paymentRows, eventRows, calls, request, users,
                 authCall>>

InitiatePayment_Provider_CatchFailed(w) ==
  /\ pc[w] = "cp_initiate"
  /\ IF ~providerMapHas(loc[w].provider)
       THEN /\ loc' = [loc EXCEPT ![w] = Finish(@, "NotFound", NoPayment)]
            /\ pc' = [pc EXCEPT ![w] = "done"]
       ELSE \/ \E t \in TxnIds :
                 /\ loc' = [loc EXCEPT ![w] =
                             [@ EXCEPT !.status = "PENDING", !.ptid = t,
                                       !.invoked = @ + 1]]
                 /\ pc' = [pc EXCEPT ![w] = "cp_update"]
            \/ /\ loc' = [loc EXCEPT ![w] =
                           [@ EXCEPT !.status = "FAILED", !.ptid = EmptyString,
                                     !.invoked = @ + 1]]
               /\ pc' = [pc EXCEPT ![w] = "cp_update"]
            \/ /\ loc' = [loc EXCEPT ![w] =
                           [@ EXCEPT !.status = "FAILED", !.ptid = EmptyString,
                                     !.invoked = @ + 1, !.threw = TRUE]]
               /\ pc' = [pc EXCEPT ![w] = "cp_update"]
  /\ UNCHANGED <<payments, webhookEvents, locks, refs, paymentMethods, guard, paymentRows, eventRows, calls, request, users,
                 authCall>>

\* The provider answers PENDING with a transaction id, answers FAILED with
\* an empty id, or its promise rejects; the rejection is not caught.
InitiatePayment_Provider(w) ==
  /\ pc[w] = "cp_initiate"
  /\ IF ~providerMapHas(loc[w].provider)
       THEN /\ loc' = [loc EXCEPT ![w] = Finish(@, "NotFound", NoPayment)]
            /\ pc' = [pc EXCEPT ![w] = "done"]
       ELSE \/ \E t \in TxnIds :
                 /\ loc' = [loc EXCEPT ![w] =
                             [@ EXCEPT !.status = "PENDING", !.ptid = t,
                                       !.invoked = @ + 1]]
                 /\ pc' = [pc EXCEPT ![w] = "cp_update"]
            \/ /\ loc' = [loc EXCEPT ![w] =
                           [@ EXCEPT !.status = "FAILED", !.ptid = EmptyString,
                                     !.invoked = @ + 1]]
               /\ pc' = [pc EXCEPT ![w] = "cp_update"]
            \/ /\ loc' = [loc EXCEPT ![w] =
                           Finish([@ EXCEPT !.invoked = @ + 1, !.threw = TRUE],
                                  "ProviderError", NoPayment)]
               /\ pc' = [pc EXCEPT ![w] = "done"]
  /\ UNCHANGED <<payments, webhookEvents, locks, refs, paymentMethods, guard, paymentRows, eventRows, calls, request, users,
                 authCall>>

\* initiatePayment: updateByReference with the provider's answer
InitiatePayment_Update(w) ==
  /\ pc[w] = "cp_update"
  /\ LET l == loc[w]
         ps == updateByReference(payments, l.ref,
                 [status |-> l.status, provider_transaction_id |-> l.ptid,
                  provider_name |-> MtnProviderName])
     IN /\ payments' = ps
        /\ loc' = [NoteWrite(loc, w, l.ref) EXCEPT ![w] = Finish(l, "ok", ps[l.ref])]
        /\ pc' = [pc EXCEPT ![w] = "done"]
  /\ UNCHANGED <<webhookEvents, locks, refs, paymentMethods, guard, paymentRows, eventRows, calls, request, users,
                 authCall>>

\* ------------------------------------------------------ updatePaymentStatus
\* findByReference, NotFound, validateStateTransition
UpdatePaymentStatus_Find_OwnCheck(w) ==
  /\ CanStart(w)
  /\ \E ref \in refs, status \in PaymentStatus, ptid \in TxnIds \cup {Undefined} :
       LET l == Begin(w, "updatePaymentStatus", ref, status, ptid)
           payment == findByReference(payments, ref)
       IN /\ calls' = calls + 1
          /\ IF payment = NoPayment
               THEN /\ loc' = [loc EXCEPT ![w] = Finish(l, "NotFound", NoPayment)]
                    /\ pc' = [pc EXCEPT ![w] = "done"]
               ELSE IF ~validateStateTransition_SkipPending(payment.status, status)
                 THEN /\ loc' = [loc EXCEPT ![w] =
                                  Finish([l EXCEPT !.cur = payment.status],
                                         "InvalidStateTransition", NoPayment)]
                      /\ pc' = [pc EXCEPT ![w] = "done"]
                 ELSE /\ loc' = [loc EXCEPT ![w] =
                                  [l EXCEPT !.cur = payment.status, !.fresh = TRUE]]
                      /\ pc' = [pc EXCEPT ![w] = "ups_update"]
  /\ UNCHANGED <<payments, webhookEvents, locks, refs, paymentMethods, guard, paymentRows, eventRows, request, users,
                 authCall>>

UpdatePaymentStatus_Find(w) ==
  /\ CanStart(w)
  /\ \E ref \in refs, status \in PaymentStatus, ptid \in TxnIds \cup {Undefined} :
       LET l == Begin(w, "updatePaymentStatus", ref, status, ptid)
           payment == findByReference(payments, ref)
       IN /\ calls' = calls + 1
          /\ IF payment = NoPayment
               THEN /\ loc' = [loc EXCEPT ![w] = Finish(l, "NotFound", NoPayment)]
                    /\ pc' = [pc EXCEPT ![w] = "done"]
               ELSE IF ~validateStateTransition(payment.status, status)
                 THEN /\ loc' = [loc EXCEPT ![w] =
                                  Finish([l EXCEPT !.cur = payment.status],
                                         "InvalidStateTransition", NoPayment)]
                      /\ pc' = [pc EXCEPT ![w] = "done"]
                 ELSE /\ loc' = [loc EXCEPT ![w] =
                                  [l EXCEPT !.cur = payment.status, !.fresh = TRUE]]
                      /\ pc' = [pc EXCEPT ![w] = "ups_update"]
  /\ UNCHANGED <<payments, webhookEvents, locks, refs, paymentMethods, guard, paymentRows, eventRows, request, users,
                 authCall>>

\* updateByReference(payment_reference_id, {status, provider_transaction_id})
UpdatePaymentStatus_Update(w) ==
  /\ pc[w] = "ups_update"
  /\ LET l == loc[w]
         ps == updateByReference(payments, l.ref,
                 [status |-> l.status, provider_transaction_id |-> l.ptid,
                  provider_name |-> Undefined])
     IN /\ payments' = ps
        /\ loc' = [NoteWrite(loc, w, l.ref) EXCEPT ![w] =
                    [Finish(l, "ok", ps[l.ref]) EXCEPT !.wrote = TRUE]]
        /\ pc' = [pc EXCEPT ![w] = "done"]
  /\ UNCHANGED <<webhookEvents, locks, refs, paymentMethods, guard, paymentRows, eventRows, calls, request, users,
                 authCall>>

\* ------------------------------------------------------------ handleWebhook
\* redisLock(lockKey, 10 s); 'Webhook already being processed' when it is held
HandleWebhook_Lock(w) ==
  /\ CanStart(w)
  /\ \E ref \in refs, status \in PaymentStatus, ptid \in TxnIds :
       LET prev == loc[w]
           again == /\ prev.op = "handleWebhook" /\ prev.result = "ok"
                    /\ prev.ref = ref /\ prev.status = status /\ prev.ptid = ptid
           l == [Begin(w, "handleWebhook", ref, status, ptid)
                   EXCEPT !.repeat = again, !.heldAtLock = locks[ref],
                          !.prevRet = IF again THEN prev.ret ELSE NoPayment]
       IN /\ calls' = calls + 1
          /\ IF redisLock(locks, ref)
               THEN /\ locks' = [locks EXCEPT ![ref] = TRUE]
                    /\ loc' = [loc EXCEPT ![w] =
                                [l EXCEPT !.leaseValid = TRUE,
                                          !.afterProcessed =
                                            /\ ref \in DOMAIN webhookEvents
                                            /\ webhookEvents[ref].is_processed]]
                    /\ pc' = [pc EXCEPT ![w] = "wh_findEvent"]
               ELSE /\ loc' = [loc EXCEPT ![w] = Finish(l, "AlreadyProcessing", NoPayment)]
                    /\ pc' = [pc EXCEPT ![w] = "done"]
                    /\ UNCHANGED locks
  /\ UNCHANGED <<payments, webhookEvents, refs, paymentMethods, guard, paymentRows, eventRows, request, users,
                 authCall>>

\* findWebhookEvent and the test existingWebhook && existingWebhook.is_processed
HandleWebhook_FindEvent(w) ==
  /\ pc[w] = "wh_findEvent"
  /\ LET existingWebhook == findWebhookEvent(webhookEvents, loc[w].ref) IN
       /\ loc' = [loc EXCEPT ![w].fastPath = alreadyProcessed(existingWebhook)]
       /\ pc' = [pc EXCEPT ![w] =
                  IF alreadyProcessed(existingWebhook) THEN "wh_fast" ELSE "wh_findPayment"]
  /\ UNCHANGED <<payments, webhookEvents, locks, refs, paymentMethods, guard, paymentRows, eventRows, calls, request, users,
                 authCall>>

\* the idempotent fast path: return the stored payment
HandleWebhook_FastPath_Missing(w) ==
  /\ pc[w] = "wh_fast"
  /\ loc' = [loc EXCEPT ![w] = Finish(@, "NotFound", NoPayment)]
  /\ pc' = [pc EXCEPT ![w] = "done"]
  /\ UNCHANGED <<payments, webhookEvents, locks, refs, paymentMethods, guard, paymentRows, eventRows, calls, request, users,
                 authCall>>

HandleWebhook_FastPath(w) ==
  /\ pc[w] = "wh_fast"
  /\ LET payment == findByReference(payments, loc[w].ref) IN
       loc' = [loc EXCEPT ![w] =
                IF payment = NoPayment
                  THEN Finish(@, "NotFound", NoPayment)
                  ELSE Finish([@ EXCEPT !.cur = payment.status], "ok", payment)]
  /\ pc' = [pc EXCEPT ![w] = "done"]
  /\ UNCHANGED <<payments, webhookEvents, locks, refs, paymentMethods, guard, paymentRows, eventRows, calls, request, users,
                 authCall>>

\* findByReference, NotFound, validateStateTransition
HandleWebhook_FindPayment_RecordsEvent(w) ==
  /\ pc[w] = "wh_findPayment"
  /\ LET l == loc[w]
         payment == findByReference(payments, l.ref)
     IN IF payment = NoPayment
          THEN /\ loc' = [loc EXCEPT ![w] = Finish(l, "NotFound", NoPayment)]
               /\ pc' = [pc EXCEPT ![w] = "done"]
               /\ webhookEvents' =
                    upsertWebhookEvent(webhookEvents, l.ref, l.status, l.ptid)
          ELSE /\ UNCHANGED webhookEvents
               /\ IF ~validateStateTransition(payment.status, l.status)
                    THEN /\ loc' = [loc EXCEPT ![w] =
                                     Finish([l EXCEPT !.cur = payment.status],
                                            "InvalidStateTransition", NoPayment)]
                         /\ pc' = [pc EXCEPT ![w] = "done"]
                    ELSE /\ loc' = [loc EXCEPT ![w] =
                                     [l EXCEPT !.cur = payment.status,
                                               !.fresh = TRUE]]
                         /\ pc' = [pc EXCEPT ![w] = "wh_tx_upsert"]
  /\ UNCHANGED <<payments, locks, refs, paymentMethods, guard, paymentRows, eventRows,
                 calls, request, users, authCall>>

HandleWebhook_FindPayment(w) ==
  /\ pc[w] = "wh_findPayment"
  /\ LET l == loc[w]
         payment == findByReference(payments, l.ref)
     IN IF payment = NoPayment
          THEN /\ loc' = [loc EXCEPT ![w] = Finish(l, "NotFound", NoPayment)]
               /\ pc' = [pc EXCEPT ![w] = "done"]
          ELSE IF ~validateStateTransition(payment.status, l.status)
            THEN /\ loc' = [loc EXCEPT ![w] =
                             Finish([l EXCEPT !.cur = payment.status],
                                    "InvalidStateTransition", NoPayment)]
                 /\ pc' = [pc EXCEPT ![w] = "done"]
            ELSE /\ loc' = [loc EXCEPT ![w] =
                             [l EXCEPT !.cur = payment.status, !.fresh = TRUE]]
                 /\ pc' = [pc EXCEPT ![w] = "wh_tx_upsert"]
  /\ UNCHANGED <<payments, webhookEvents, locks, refs, paymentMethods, guard, paymentRows, eventRows, calls, request, users,
                 authCall>>

InTx(w) == pc[w] = "wh_tx_update"

\* processWebhookTransaction, first statement: webhookEvent.upsert.  It waits
\* for an open transaction that holds the same row or the same index entry.
ProcessWebhookTx_Upsert(w) ==
  /\ pc[w] = "wh_tx_upsert"
  /\ LET l == loc[w] IN
       /\ \A o \in Workers \ {w} :
            InTx(o) => (loc[o].ref # l.ref /\ loc[o].ptid # l.ptid)
       /\ IF upsertViolatesUnique(webhookEvents, l.ref, l.ptid)
            THEN LET out == processWebhookTransaction(
                              webhookEvents, payments, l.ref, l.status, l.ptid, FALSE)
                 IN /\ webhookEvents' = out[1]
                    /\ payments' = out[2]
                    /\ loc' = [loc EXCEPT ![w] = Finish(l, "StoreError", NoPayment)]
                    /\ pc' = [pc EXCEPT ![w] = "done"]
            ELSE /\ pc' = [pc EXCEPT ![w] = "wh_tx_update"]
                 /\ UNCHANGED <<payments, webhookEvents, loc, request, users, authCall>>
  /\ UNCHANGED <<locks, refs, paymentMethods, guard, paymentRows, eventRows, calls, request, users,
                 authCall>>

\* processWebhookTransaction, second statement: payment.update, then commit
ProcessWebhookTx_Update(w) ==
  /\ pc[w] = "wh_tx_update"
  /\ LET l == loc[w]
         out == processWebhookTransaction(
                  webhookEvents, payments, l.ref, l.status, l.ptid, TRUE)
     IN /\ webhookEvents' = out[1]
        /\ payments' = out[2]
        /\ eventRows' = [eventRows EXCEPT ![l.ref] =
                           IF upsertInserts(webhookEvents, l.ref) THEN @ + 1 ELSE @]
        /\ loc' = [NoteWrite(loc, w, l.ref) EXCEPT ![w] =
                    [Finish(l, "ok", out[2][l.ref]) EXCEPT !.wrote = TRUE]]
        /\ pc' = [pc EXCEPT ![w] = "done"]
  /\ UNCHANGED <<locks, refs, paymentMethods, guard, paymentRows, calls, request, users, authCall>>

\* a store failure after the upsert and before the payment update: rollback
ProcessWebhookTx_Fail(w) ==
  /\ pc[w] = "wh_tx_update"
  /\ LET l == loc[w]
         out == processWebhookTransaction(
                  webhookEvents, payments, l.ref, l.status, l.ptid, FALSE)
     IN /\ webhookEvents' = out[1]
        /\ payments' = out[2]
        /\ loc' = [loc EXCEPT ![w] = Finish(l, "StoreError", NoPayment)]
        /\ pc' = [pc EXCEPT ![w] = "done"]
  /\ UNCHANGED <<locks, refs, paymentMethods, guard, paymentRows, eventRows, calls, request, users,
                 authCall>>

\* the lease of the redis key runs out (10 s after lockOnce)
LeaseExpire_Never(ref) == FALSE /\ UNCHANGED vars

LeaseExpire(ref) ==
  /\ locks[ref]
  /\ locks' = [locks EXCEPT ![ref] = FALSE]
  /\ loc' = [w \in Workers |->
               IF loc[w].ref = ref THEN [loc[w] EXCEPT !.leaseValid = FALSE] ELSE loc[w]]
  /\ UNCHANGED <<payments, webhookEvents, pc, refs, paymentMethods, guard, paymentRows, eventRows, calls, request, users,
                 authCall>>

\* ---------------------------------------------------- getPaymentByReference
\* findByReference, NotFound when null, else the row
GetPaymentByReference(w) ==
  /\ CanStart(w)
  /\ \E ref \in refs :
       LET l == Begin(w, "getPaymentByReference", ref, "NONE", Undefined)
           payment == findByReference(payments, ref)
       IN /\ calls' = calls + 1
          /\ loc' = [loc EXCEPT ![w] =
                      IF payment = NoPayment
                        THEN Finish(l, "NotFound", NoPayment)
                        ELSE Finish(l, "ok", payment)]
  /\ UNCHANGED <<payments, webhookEvents, locks, pc, refs, paymentMethods, guard,
                 paymentRows, eventRows, request, users, authCall>>

Next ==
  \/ \E w \in Workers : CreatePayment(w)
  \/ \E w \in Workers : GetPaymentByReference(w)
  \/ \E w \in Workers : InitiatePayment_Provider(w)
  \/ \E w \in Workers : InitiatePayment_Update(w)
  \/ \E w \in Workers : UpdatePaymentStatus_Find(w)
  \/ \E w \in Workers : UpdatePaymentStatus_Update(w)
  \/ \E w \in Workers : HandleWebhook_Lock(w)
  \/ \E w \in Workers : HandleWebhook_FindEvent(w)
  \/ \E w \in Workers : HandleWebhook_FastPath(w)
  \/ \E w \in Workers : HandleWebhook_FindPayment(w)
  \/ \E w \in Workers : ProcessWebhookTx_Upsert(w)
  \/ \E w \in Workers : ProcessWebhookTx_Update(w)
  \/ \E w \in Workers : ProcessWebhookTx_Fail(w)
  \/ \E ref \in refs : LeaseExpire(ref)

Spec == Init /\ [][Next]_vars

\* =================================================================== claims
\* the positions of handleWebhook between its redisLock and its return
LockedPcs == {"wh_findEvent", "wh_fast", "wh_findPayment", "wh_tx_upsert", "wh_tx_update"}

TxPcs == {"wh_tx_upsert", "wh_tx_update"}

\* C1: once the stored status of a Payment is SUCCESS or FAILED, no step
\* changes it.
C1_TerminalImmutable ==
  [][\A r \in DOMAIN payments :
       payments[r].status \in Terminal => payments'[r].status = payments[r].status]_vars

\* C2: every change of a stored status is a pair of the transition table
\* (INITIATED->PENDING, PENDING->SUCCESS, PENDING->FAILED).
C2_OnlyTablePairs ==
  [][\A r \in DOMAIN payments :
       payments'[r].status # payments[r].status
         => payments'[r].status \in validTransitions[payments[r].status]]_vars

\* C3: an updatePaymentStatus call and a handleWebhook call never both write
\* the Payment after validating against the same stored status: no call
\* writes when a call of the other kind validated the same row and wrote first.
C3_NoDoubleWrite ==
  \A w \in Workers :
    ~ /\ loc[w].wrote
      /\ loc[w].cur = "PENDING"
      /\ \/ loc[w].op = "updatePaymentStatus" /\ loc[w].sameRead = "handleWebhook"
         \/ loc[w].op = "handleWebhook" /\ loc[w].sameRead = "updatePaymentStatus"

\* C4: a handleWebhook call repeating the payload of the worker's previous,
\* successful handleWebhook call returns without error the same Payment and
\* writes nothing.
C4_WebhookIdempotent ==
  \A w \in Workers :
    (loc[w].repeat /\ pc[w] = "done")
      => /\ loc[w].result = "ok"
         /\ loc[w].ret = loc[w].prevRet
         /\ ~loc[w].wrote

\* C5: a handleWebhook call that took the lock when a processed WebhookEvent
\* existed for its reference writes neither table, whatever its payload, and
\* returns the stored Payment.
C5_ProcessedIsNoOp ==
  [][\A w \in Workers :
       (pc[w] \in LockedPcs /\ loc[w].afterProcessed /\ pc'[w] # pc[w])
         => /\ payments' = payments
            /\ webhookEvents' = webhookEvents
            /\ pc'[w] \in {"wh_fast", "done"}
            /\ pc'[w] = "done"
                 => /\ loc'[w].result = "ok"
                    /\ loc'[w].ret = payments[loc[w].ref]
                    /\ ~loc'[w].wrote]_vars

C5_Witness ==
  \E w \in Workers :
    /\ pc[w] = "done" /\ loc[w].op = "handleWebhook" /\ loc[w].afterProcessed
    /\ loc[w].result = "ok"
    /\ loc[w].status # webhookEvents[loc[w].ref].status
    /\ loc[w].status \in validTransitions[loc[w].ret.status]

\* C6: when a handleWebhook call that took the lock finishes, with a Payment
\* or with an error, the lock of its reference is free.
C6_LockReleasedAtReturn ==
  [][\A w \in Workers :
       (pc[w] \in LockedPcs /\ pc'[w] = "done") => ~locks'[loc[w].ref]]_vars

\* C7: two handleWebhook calls for one reference never both hold a lease that
\* has not run out, and a call is turned away with 'already being processed'
\* exactly when the key is held, in one step that touches neither table.
C7_LockSerialization ==
  [][/\ \A p, q \in Workers :
          (p # q /\ pc'[p] \in LockedPcs /\ pc'[q] \in LockedPcs
             /\ loc'[p].ref = loc'[q].ref)
            => ~(loc'[p].leaseValid /\ loc'[q].leaseValid)
     /\ \A w \in Workers :
          (pc[w] = "done" /\ loc'[w] # loc[w] /\ loc'[w].op = "handleWebhook")
            => IF locks[loc'[w].ref]
                 THEN /\ pc'[w] = "done"
                      /\ loc'[w].result = "AlreadyProcessing"
                      /\ payments' = payments /\ webhookEvents' = webhookEvents
                 ELSE pc'[w] = "wh_findEvent" /\ loc'[w].leaseValid]_vars

C7_Witness ==
  \E p, q \in Workers :
    /\ p # q /\ loc[p].ref = loc[q].ref
    /\ pc[p] \in LockedPcs /\ loc[p].leaseValid
    /\ pc[q] = "done" /\ loc[q].op = "handleWebhook"
    /\ loc[q].result = "AlreadyProcessing"

\* C8: processWebhookTransaction is all-or-nothing: when it succeeds the
\* WebhookEvent is processed and the Payment has the webhook's status and
\* provider_transaction_id; when it fails, at the upsert or after it, both
\* tables are as they were; nothing is visible while it is open.
C8_TransactionAtomic ==
  [][\A w \in Workers :
       (pc[w] \in TxPcs /\ pc'[w] # pc[w])
         => LET l == loc[w] IN
            IF pc'[w] = "done" /\ loc'[w].result = "ok"
              THEN /\ l.ref \in DOMAIN webhookEvents'
                   /\ webhookEvents'[l.ref].is_processed
                   /\ webhookEvents'[l.ref].status = l.status
                   /\ payments'[l.ref].status = l.status
                   /\ payments'[l.ref].provider_transaction_id = l.ptid
              ELSE payments' = payments /\ webhookEvents' = webhookEvents]_vars

C8_Witness ==
  \E w \in Workers :
    /\ pc[w] = "done" /\ loc[w].op = "handleWebhook"
    /\ loc[w].result = "StoreError"
    /\ loc[w].ref \in DOMAIN payments
    /\ payments[loc[w].ref].status = loc[w].cur
    /\ loc[w].ref \notin DOMAIN webhookEvents

\* C9 (as stated): a handleWebhook call that took the lock, read stored status
\* `from` and asked for a `to` outside the table fails with the invalid
\* transition error and does not write.
C9_IllegalWebhookRejected ==
  \A w \in Workers :
    (/\ pc[w] = "done" /\ loc[w].op = "handleWebhook"
     /\ loc[w].cur # "NONE"
     /\ loc[w].status \notin validTransitions[loc[w].cur])
      => loc[w].result = "InvalidStateTransition" /\ ~loc[w].wrote

\* C9 (amended): such a call never writes the Payment; it fails with the
\* invalid transition error unless it found a processed WebhookEvent for the
\* reference, in which case it returns the stored Payment, still in `from`.
C9_IllegalWebhookNeverApplied ==
  \A w \in Workers :
    (/\ pc[w] = "done" /\ loc[w].op = "handleWebhook"
     /\ loc[w].cur # "NONE"
     /\ loc[w].status \notin validTransitions[loc[w].cur])
      => /\ ~loc[w].wrote
         /\ IF loc[w].fastPath
              THEN loc[w].result = "ok" /\ loc[w].ret.status = loc[w].cur
              ELSE loc[w].result = "InvalidStateTransition"

C9_Witness ==
  \E w \in Workers :
    /\ pc[w] = "done" /\ loc[w].op = "handleWebhook"
    /\ loc[w].cur = "FAILED" /\ loc[w].status = "SUCCESS"
    /\ ~loc[w].fastPath
    /\ loc[w].result = "InvalidStateTransition"
    /\ payments[loc[w].ref].status = "FAILED"

\* C10: updatePaymentStatus that read stored status `from` and asked for a
\* `to` outside the table (to = from and to = INITIATED included) fails with
\* the invalid transition error and writes nothing.
C10_IllegalUpdateRejected ==
  [][\A w \in Workers :
       (/\ loc'[w] # loc[w] /\ loc'[w].op = "updatePaymentStatus"
        /\ loc'[w].cur # "NONE"
        /\ loc'[w].status \notin validTransitions[loc'[w].cur])
         => /\ pc'[w] = "done"
            /\ loc'[w].result = "InvalidStateTransition"
            /\ ~loc'[w].wrote
            /\ payments' = payments /\ webhookEvents' = webhookEvents]_vars

C10_Witness ==
  \E w \in Workers :
    /\ pc[w] = "done" /\ loc[w].op = "updatePaymentStatus"
    /\ loc[w].result = "InvalidStateTransition"
    /\ loc[w].cur = "INITIATED" /\ loc[w].status = "SUCCESS"
    /\ payments[loc[w].ref].status = "INITIATED"

\* C11: a handleWebhook call that took the lock, read the Payment in PENDING
\* and carries SUCCESS or FAILED returns without error and leaves the stored
\* status equal to the webhook's status (a failing store aside).
C11_PendingWebhookApplied ==
  [][\A w \in Workers :
       (/\ pc[w] \in LockedPcs /\ pc'[w] = "done"
        /\ loc'[w].cur = "PENDING" /\ loc[w].status \in Terminal
        /\ loc'[w].result # "StoreError")
         => /\ loc'[w].result = "ok"
            /\ payments'[loc[w].ref].status = loc[w].status]_vars

\* C12: updatePaymentStatus that read stored status `from` and asks for a `to`
\* of the table goes on to its write, which stores `to` and the supplied
\* provider_transaction_id (the stored one when none is supplied) and returns
\* the row as written.
C12_LegalUpdateApplied ==
  [][\A w \in Workers :
       /\ (/\ pc[w] = "done" /\ loc'[w] # loc[w]
           /\ loc'[w].op = "updatePaymentStatus"
           /\ loc'[w].cur \in PaymentStatus
           /\ loc'[w].status \in validTransitions[loc'[w].cur])
            => pc'[w] = "ups_update"
       /\ (pc[w] = "ups_update" /\ pc'[w] # pc[w])
            => LET l == loc[w] IN
               /\ pc'[w] = "done"
               /\ loc'[w].result = "ok"
               /\ payments'[l.ref].status = l.status
               /\ payments'[l.ref].provider_transaction_id =
                    IF l.ptid = Undefined
                      THEN payments[l.ref].provider_transaction_id ELSE l.ptid
               /\ payments'[l.ref].provider_name = payments[l.ref].provider_name
               /\ loc'[w].ret = payments'[l.ref]]_vars

C12_Witness ==
  \E w \in Workers :
    /\ pc[w] = "done" /\ loc[w].op = "updatePaymentStatus"
    /\ loc[w].result = "ok" /\ loc[w].cur = "PENDING" /\ loc[w].status = "SUCCESS"
    /\ loc[w].ptid = "T2"
    /\ Columns(payments[loc[w].ref]) = PaymentRow("SUCCESS", "T2", MtnProviderName)

\* C13: a processed WebhookEvent with a terminal status always sits beside a
\* Payment with that same status.
C13_ProcessedEventMatchesPayment ==
  \A r \in DOMAIN webhookEvents :
    (webhookEvents[r].is_processed /\ webhookEvents[r].status \in Terminal)
      => payments[r].status = webhookEvents[r].status

\* C14: the WebhookEvent table never holds more than one row for a
\* payment_reference_id, however many deliveries were made for it.
C14_OneEventPerReference ==
  \A r \in Refs :
    /\ eventRows[r] <= 1
    /\ eventRows[r] = IF r \in DOMAIN webhookEvents THEN 1 ELSE 0

C14_Witness ==
  \E w \in Workers :
    /\ pc[w] = "done" /\ loc[w].op = "handleWebhook" /\ loc[w].wrote
    /\ loc[w].sameRead = "handleWebhook"
    /\ eventRows[loc[w].ref] = 1
    /\ webhookEvents[loc[w].ref].status = loc[w].status

\* C15: of two handleWebhook calls that validated against the same stored row
\* (the second took the lock after the first's lease ran out), the one whose
\* transaction commits second does not change the Payment's status.
C15_OnlyOneWebhookChangesStatus ==
  [][\A w \in Workers :
       (/\ pc[w] = "wh_tx_update" /\ pc'[w] = "done"
        /\ loc[w].sameRead = "handleWebhook")
         => payments'[loc[w].ref].status = payments[loc[w].ref].status]_vars

\* The redis key is set with PX 10000: time passing removes a held key.
LiveSpec == Spec /\ \A ref \in Refs : WF_vars(LeaseExpire(ref))

InitTwoRefs ==
  /\ payments = updateByReference(
                  create(<<>>, "PAY-1", "UGX", "MOBILE_MONEY"), "PAY-1",
                  [status |-> "PENDING", provider_transaction_id |-> "T1",
                   provider_name |-> MtnProviderName])
  /\ webhookEvents = <<>>
  /\ eventRows = [r \in Refs |-> 0]
  /\ locks = [r \in Refs |-> FALSE]
  /\ pc = [w \in Workers |-> "done"]
  /\ guard = [w \in Workers |-> IdleGuard]
  /\ loc = [w \in Workers |-> IdleLoc]
  /\ refs = Refs
  /\ calls = 1
  /\ paymentMethods = SeededMethods
  /\ paymentRows = [r \in Refs |-> IF r = "PAY-1" THEN 1 ELSE 0]
  /\ request = IdleRequest
  /\ users = <<>>
  /\ authCall = [w \in Workers |-> IdleAuth]

SpecTwoRefs == InitTwoRefs /\ [][Next]_vars

\* C17: a handleWebhook call is rejected with 'already being processed' only
\* when the key of its own reference was held; a key held for another
\* reference never rejects it.
C17_OtherReferenceNeverRejects ==
  \A w \in Workers :
    (loc[w].op = "handleWebhook" /\ loc[w].result = "AlreadyProcessing")
      => loc[w].heldAtLock

C17_Witness ==
  \E w \in Workers, o \in Workers :
    /\ pc[w] \in TxPcs /\ pc[o] \in LockedPcs
    /\ loc[w].ref # loc[o].ref
    /\ loc[w].leaseValid /\ loc[o].leaseValid
    /\ locks[loc[w].ref] /\ locks[loc[o].ref]

\* C18: a createPayment call whose currency name or payment method name is
\* not found ends at once with NotFound: it writes no Payment row, never
\* invokes a provider, and its step leaves the store as it was.
UnknownName(l) ==
  /\ l.op = "createPayment"
  /\ l.currency \notin SeededCurrencies \/ l.method \notin DOMAIN paymentMethods

C18_NotFoundLeavesStore ==
  /\ [](\A w \in Workers :
          UnknownName(loc[w])
            => /\ pc[w] = "done" /\ loc[w].result = "NotFound"
               /\ ~loc[w].wrote /\ loc[w].invoked = 0)
  /\ [][\A w \in Workers :
          (/\ calls' = calls + 1 /\ pc[w] = "done"
           /\ \A o \in Workers \ {w} : pc'[o] = pc[o] /\ loc'[o] = loc[o]
           /\ UnknownName(loc'[w]))
            => /\ payments' = payments /\ webhookEvents' = webhookEvents
               /\ eventRows' = eventRows /\ locks' = locks]_vars

C18_Witness ==
  \E w \in Workers, o \in Workers :
    /\ w # o
    /\ pc[w] = "done" /\ loc[w].op = "createPayment"
    /\ loc[w].currency = "XYZ" /\ loc[w].result = "NotFound"
    /\ pc[o] = "done" /\ loc[o].op = "createPayment"
    /\ loc[o].method = "CARD" /\ loc[o].currency = "UGX"
    /\ loc[o].result = "NotFound"
    /\ payments = <<>>

\* C19: createPayment persists the INITIATED row first, then invokes the
\* provider, then persists the provider's status, transaction id and name;
\* the provider is invoked only after the row exists and at most once per call.
C19_CreateOrder ==
  /\ [](\A w \in Workers :
          loc[w].op = "createPayment"
            => /\ loc[w].invoked <= 1
               /\ loc[w].invoked = 1
                    => loc[w].wrote /\ loc[w].ref \in DOMAIN payments
               /\ pc[w] = "cp_initiate" => loc[w].invoked = 0
               /\ pc[w] = "cp_update" => loc[w].invoked = 1)
  /\ [][\A w \in Workers :
          /\ (pc[w] = "done" /\ pc'[w] = "cp_initiate")
               => /\ loc'[w].ref \notin DOMAIN payments
                  /\ Columns(payments'[loc'[w].ref]) = PaymentRow("INITIATED", Null, Null)
          /\ (pc[w] = "cp_initiate" /\ pc'[w] # "cp_initiate")
               => payments' = payments
          /\ (pc[w] = "cp_update" /\ pc'[w] # "cp_update")
               => /\ pc'[w] = "done" /\ loc'[w].result = "ok"
                  /\ Columns(payments'[loc[w].ref]) =
                       PaymentRow(loc[w].status, loc[w].ptid, MtnProviderName)
                  /\ loc'[w].ret = payments'[loc[w].ref]]_vars

C19_Witness ==
  \E w \in Workers :
    /\ pc[w] = "done" /\ loc[w].op = "createPayment" /\ loc[w].result = "ok"
    /\ loc[w].invoked = 1 /\ loc[w].wrote
    /\ Columns(payments[loc[w].ref]) = PaymentRow("PENDING", "T2", MtnProviderName)

\* C20: when the provider's initiatePayment throws, createPayment ends with
\* that error on the same step, writes nothing, so that a row no other call
\* has written is still INITIATED, and does not invoke the provider again.
C20_ProviderThrowKeepsInitiated ==
  /\ [](\A w \in Workers :
          (loc[w].op = "createPayment" /\ loc[w].threw)
            => /\ pc[w] = "done" /\ loc[w].result = "ProviderError"
               /\ loc[w].invoked = 1 /\ loc[w].ret = NoPayment)
  /\ [][\A w \in Workers :
          (pc[w] = "cp_initiate" /\ loc'[w].threw)
            => /\ payments' = payments
               /\ loc[w].fresh
                    => Columns(payments'[loc[w].ref]) = PaymentRow("INITIATED", Null, Null)]_vars

C20_Witness ==
  \E w \in Workers :
    /\ pc[w] = "done" /\ loc[w].op = "createPayment" /\ loc[w].threw
    /\ loc[w].result = "ProviderError"
    /\ Columns(payments[loc[w].ref]) = PaymentRow("INITIATED", Null, Null)

\* C21: a provider initiation that throws during createPayment ends with the
\* Payment stored as FAILED and returned to the caller, not with an error.
C21_ProviderThrowMappedToFailed ==
  \A w \in Workers :
    (loc[w].op = "createPayment" /\ loc[w].threw)
      => /\ loc[w].result = "ok"
         /\ loc[w].ret.status = "FAILED"
         /\ payments[loc[w].ref].status = "FAILED"

\* C22: when provider initiation answers PENDING with transaction id T for a
\* MOBILE_MONEY payment, the stored and returned Payment is PENDING with T
\* and provider_name "MTN_UGANDA".
C22_StoredProviderNameIsSeededName ==
  [][\A w \in Workers :
       (/\ pc[w] = "cp_update" /\ pc'[w] = "done"
        /\ loc[w].method = "MOBILE_MONEY" /\ loc[w].status = "PENDING")
         => /\ Columns(payments'[loc[w].ref]) =
                 PaymentRow("PENDING", loc[w].ptid, "MTN_UGANDA")
            /\ loc'[w].ret = payments'[loc[w].ref]]_vars

\* The store holds a payment method whose provider has no adapter.
InitUnregistered ==
  /\ payments = <<>>
  /\ webhookEvents = <<>>
  /\ eventRows = [r \in Refs |-> 0]
  /\ locks = [r \in Refs |-> FALSE]
  /\ pc = [w \in Workers |-> "done"]
  /\ guard = [w \in Workers |-> IdleGuard]
  /\ loc = [w \in Workers |-> IdleLoc]
  /\ refs = {"PAY-1"}
  /\ calls = 0
  /\ paymentMethods = MethodsWithUnregistered
  /\ paymentRows = [r \in Refs |-> 0]
  /\ request = IdleRequest
  /\ users = <<>>
  /\ authCall = [w \in Workers |-> IdleAuth]

SpecUnregistered == InitUnregistered /\ [][Next]_vars

\* C23: when the provider of the payment method has no adapter, createPayment
\* ends with NotFound and invokes no adapter; the row it created stays as
\* created: INITIATED, without provider_transaction_id and provider_name.
Unregistered(l) ==
  /\ l.op = "createPayment"
  /\ l.currency \in SeededCurrencies
  /\ l.method \in DOMAIN paymentMethods
  /\ paymentMethods[l.method] \notin providerMap

C23_UnregisteredProviderNotFound ==
  /\ [](\A w \in Workers :
          Unregistered(loc[w])
            => /\ loc[w].invoked = 0
               /\ pc[w] \in {"cp_initiate", "done"}
               /\ pc[w] = "done" => loc[w].result \in {"NotFound", "StoreError"}
               /\ (pc[w] = "done" /\ loc[w].wrote) => loc[w].result = "NotFound")
  /\ [][\A w \in Workers :
          (pc[w] = "cp_initiate" /\ pc'[w] # "cp_initiate" /\ Unregistered(loc[w]))
            => /\ pc'[w] = "done" /\ loc'[w].result = "NotFound"
               /\ payments' = payments
               /\ loc[w].fresh
                    => Columns(payments'[loc[w].ref]) = PaymentRow("INITIATED", Null, Null)]_vars

C23_Witness ==
  \E w \in Workers :
    /\ pc[w] = "done" /\ loc[w].op = "createPayment" /\ loc[w].method = "CARD"
    /\ loc[w].result = "NotFound" /\ loc[w].wrote /\ loc[w].invoked = 0
    /\ Columns(payments[loc[w].ref]) = PaymentRow("INITIATED", Null, Null)

\* C24: no two Payment records share a reference_id: per reference at most
\* one row was ever inserted, and a createPayment whose generated reference
\* is already stored fails on the insert and leaves the Payment rows alone.
C24_ReferenceUnique ==
  /\ [](\A r \in Refs :
          /\ paymentRows[r] <= 1
          /\ paymentRows[r] = IF r \in DOMAIN payments THEN 1 ELSE 0)
  /\ [][\A w \in Workers :
          (/\ pc[w] = "done" /\ calls' = calls + 1
           /\ loc'[w].op = "createPayment" /\ loc'[w].result = "StoreError"
           /\ \A o \in Workers \ {w} : pc'[o] = pc[o] /\ loc'[o] = loc[o])
            => payments' = payments /\ paymentRows' = paymentRows]_vars

C24_Witness ==
  \E w \in Workers, o \in Workers :
    /\ w # o /\ loc[w].ref = loc[o].ref
    /\ loc[w].op = "createPayment" /\ pc[w] = "cp_initiate"
    /\ loc[o].op = "createPayment" /\ pc[o] = "done"
    /\ loc[o].result = "StoreError"
    /\ paymentRows[loc[w].ref] = 1
    /\ Columns(payments[loc[w].ref]) = PaymentRow("INITIATED", Null, Null)

\* the positions from which a call performs its write of the Payment row
WritePcs == {"cp_update", "ups_update", "wh_tx_update"}

\* C25: the writes of updatePaymentStatus, handleWebhook and createPayment's
\* post-initiation step change only status, provider_transaction_id and
\* provider_name of the targeted Payment: its reference_id, currency and
\* payment method stay, every other Payment stays as it is, and no step
\* removes a Payment.
C25_WritesTouchThreeColumns ==
  [][/\ \A r \in DOMAIN payments :
          /\ r \in DOMAIN payments'
          /\ payments'[r].reference_id = payments[r].reference_id
          /\ payments'[r].currency = payments[r].currency
          /\ payments'[r].payment_method = payments[r].payment_method
     /\ \A w \in Workers :
          (pc[w] \in WritePcs /\ pc'[w] # pc[w])
            => /\ DOMAIN payments' = DOMAIN payments
               /\ \A r \in DOMAIN payments \ {loc[w].ref} :
                    payments'[r] = payments[r]]_vars

C25_Witness ==
  \E w \in Workers, o \in Workers :
    /\ w # o /\ loc[w].ref # loc[o].ref
    /\ pc[w] = "done" /\ loc[w].op \in {"updatePaymentStatus", "handleWebhook"}
    /\ loc[w].result = "ok" /\ loc[w].wrote
    /\ pc[o] = "done" /\ loc[o].op = "createPayment" /\ loc[o].result = "ok"
    /\ payments[loc[w].ref].status = loc[w].status
    /\ payments[loc[w].ref].currency = "UGX"
    /\ payments[loc[w].ref].payment_method = "MOBILE_MONEY"
    /\ payments[loc[o].ref].reference_id = loc[o].ref

\* C26: getPaymentByReference returns the stored Payment of an existing
\* reference and ends with NotFound for an absent one; its step leaves every
\* Payment, every WebhookEvent and every lock as it was.
C26_GetIsPureRead ==
  [][\A w \in Workers :
       (/\ pc[w] = "done" /\ pc'[w] = "done" /\ calls' = calls + 1
        /\ loc'[w].op = "getPaymentByReference"
        /\ \A o \in Workers \ {w} : pc'[o] = pc[o] /\ loc'[o] = loc[o])
         => /\ payments' = payments /\ webhookEvents' = webhookEvents
            /\ locks' = locks /\ eventRows' = eventRows
            /\ paymentRows' = paymentRows
            /\ loc'[w] # loc[w]
                 => IF loc'[w].ref \in DOMAIN payments
                      THEN /\ loc'[w].result = "ok"
                           /\ loc'[w].ret = payments[loc'[w].ref]
                      ELSE /\ loc'[w].result = "NotFound"
                           /\ loc'[w].ret = NoPayment]_vars

C26_Witness ==
  \E w \in Workers, o \in Workers :
    /\ w # o
    /\ pc[w] = "done" /\ loc[w].op = "getPaymentByReference"
    /\ loc[w].result = "ok" /\ loc[w].ret = payments[loc[w].ref]
    /\ loc[w].ret.status = "PENDING"
    /\ pc[o] = "done" /\ loc[o].op = "getPaymentByReference"
    /\ loc[o].result = "NotFound" /\ loc[o].ref \notin DOMAIN payments

C28_LockContentionDistinctFromInvalid ==
  \A w \in Workers :
    (/\ pc[w] = "done" /\ loc[w].op = "handleWebhook"
     /\ loc[w].result = "AlreadyProcessing")
      => getStatus(loc[w].result) # getStatus("InvalidStateTransition")

\* a call that has read the Payment and passed or failed the transition check
Rejects(l) == l.result = "InvalidStateTransition"

\* C29: a handleWebhook call that holds the lock and read stored status
\* `from` rejects the requested `to` exactly when updatePaymentStatus rejects
\* the pair, that is exactly when (from, to) is outside the table.
C29_WebhookRejectsLikeUpdate ==
  \A w \in Workers :
    (loc[w].op = "handleWebhook" /\ loc[w].cur # "NONE")
      => (Rejects(loc[w]) <=> loc[w].status \notin validTransitions[loc[w].cur])

\* C29 (amended): both entry points reject exactly the pairs outside the
\* table, except that a handleWebhook call on the idempotent fast path
\* rejects nothing; an updatePaymentStatus call and a handleWebhook call off
\* the fast path that read the same stored status and ask for the same status
\* are both rejected or both let through.
C29_SameCheckOffFastPath ==
  /\ \A w \in Workers :
       (loc[w].op \in {"updatePaymentStatus", "handleWebhook"} /\ loc[w].cur # "NONE")
         => IF loc[w].op = "handleWebhook" /\ loc[w].fastPath
              THEN ~Rejects(loc[w])
              ELSE Rejects(loc[w]) <=> loc[w].status \notin validTransitions[loc[w].cur]
  /\ \A w \in Workers, o \in Workers :
       (/\ loc[w].op = "updatePaymentStatus" /\ loc[o].op = "handleWebhook"
        /\ loc[w].cur # "NONE" /\ loc[o].cur = loc[w].cur
        /\ loc[o].status = loc[w].status /\ ~loc[o].fastPath)
         => (Rejects(loc[w]) <=> Rejects(loc[o]))

C29_Witness ==
  \E w \in Workers, o \in Workers :
    /\ loc[w].op = "updatePaymentStatus" /\ loc[o].op = "handleWebhook"
    /\ loc[w].cur = "INITIATED" /\ loc[o].cur = "INITIATED"
    /\ loc[w].status = "SUCCESS" /\ loc[o].status = "SUCCESS"
    /\ ~loc[o].fastPath
    /\ Rejects(loc[w]) /\ Rejects(loc[o])

\* ------------------------------------------------------------- AuthGuard
\* the routes of PaymentsController; only the webhook route is @Public()
Endpoints == {"create", "lookup", "callback", "webhook"}

isPublic_All(endpoint) == TRUE

isPublic(endpoint) == endpoint = "webhook"

\* Authorization headers: absent, another scheme, Bearer without a token,
\* Bearer with a token
Authorizations ==
  {NoAuthorization} \cup [type : {"Bearer", "Basic"}, token : {Undefined, "tok"}]

\* extractTokenFromHeader: the token of a Bearer header, else undefined
extractTokenFromHeader(authorization) ==
  IF authorization.type = "Bearer" THEN authorization.token ELSE Undefined

\* outcomes of the POST to /auth/verify: the call fails (network, timeout,
\* error status), the body is empty, or the body carries valid
VerifyAnswers == {"error", "nodata", "invalid", "valid"}

verified_AnyAnswer(answer) == answer # "error"

\* response.data && response.data.valid
verified(answer) == answer = "valid"

\* canActivate up to the verification call
CanActivate_Start(w) ==
  /\ guard[w].at # "verify"
  /\ \E endpoint \in Endpoints, authorization \in Authorizations :
       LET g == [IdleGuard EXCEPT !.endpoint = endpoint,
                                  !.authorization = authorization]
       IN guard' = [guard EXCEPT ![w] =
            IF isPublic(endpoint)
              THEN [g EXCEPT !.at = "handler"]
              ELSE IF extractTokenFromHeader(authorization) = Undefined
                THEN [g EXCEPT !.at = "Unauthorized"]
                ELSE [g EXCEPT !.at = "verify"]]
  /\ UNCHANGED <<payments, webhookEvents, eventRows, locks, pc, loc, refs,
                 calls, paymentMethods, paymentRows, request, users, authCall>>

\* canActivate after the verification call has answered or failed
CanActivate_Verify(w) ==
  /\ guard[w].at = "verify"
  /\ \E answer \in VerifyAnswers :
       guard' = [guard EXCEPT ![w] =
                  [@ EXCEPT !.answer = answer,
                            !.at = IF verified(answer)
                                     THEN "handler" ELSE "Unauthorized"]]
  /\ UNCHANGED <<payments, webhookEvents, eventRows, locks, pc, loc, refs,
                 calls, paymentMethods, paymentRows, request, users, authCall>>

GuardNext ==
  \/ \E w \in Workers : CanActivate_Start(w)
  \/ \E w \in Workers : CanActivate_Verify(w)

GuardSpec == Init /\ [][GuardNext]_vars

\* C30: a request to a route that is not public reaches its handler only
\* with a bearer token that the verification call answered valid; without a
\* bearer token, or when the call fails or answers anything else, it ends
\* Unauthorized and never reaches the handler; a webhook request reaches its
\* handler whatever its Authorization header, without a verification call.
C30_GuardedUnlessPublic ==
  /\ [](\A w \in Workers :
          /\ (guard[w].at = "handler" /\ guard[w].endpoint # "webhook")
               => /\ guard[w].authorization.type = "Bearer"
                  /\ guard[w].authorization.token # Undefined
                  /\ guard[w].answer = "valid"
          /\ guard[w].at = "Unauthorized"
               => /\ guard[w].endpoint # "webhook"
                  /\ guard[w].answer # "valid"
          /\ guard[w].endpoint = "webhook"
               => guard[w].at = "handler" /\ guard[w].answer = "NONE")
  /\ [][\A w \in Workers :
          /\ (guard'[w] # guard[w] /\ guard[w].at # "verify"
              /\ guard'[w].endpoint # "webhook"
              /\ \/ guard'[w].authorization.type # "Bearer"
                 \/ guard'[w].authorization.token = Undefined)
               => guard'[w].at = "Unauthorized"
          /\ (guard[w].at = "verify" /\ guard'[w] # guard[w]
              /\ guard'[w].answer # "valid")
               => guard'[w].at = "Unauthorized"]_vars

C30_Witness ==
  \E w \in Workers, o \in Workers :
    /\ guard[w].at = "handler" /\ guard[w].endpoint = "webhook"
    /\ guard[w].authorization = NoAuthorization
    /\ guard[o].at = "Unauthorized" /\ guard[o].endpoint = "callback"
    /\ guard[o].authorization.type = "Bearer"
    /\ guard[o].answer = "invalid"

\* C34: the write at the end of createPayment changes the Payment's status
\* only if the stored status is still INITIATED.
C34_FinalWriteOnlyFromInitiated ==
  [][\A w \in Workers :
       (/\ pc[w] = "cp_update" /\ pc'[w] = "done"
        /\ payments[loc[w].ref].status # "INITIATED")
         => payments'[loc[w].ref].status = payments[loc[w].ref].status]_vars

\* Two payments that provider initiation has made PENDING, and from then on
\* only webhook deliveries.
InitTwoPending ==
  /\ payments =
       [r \in Refs |->
          updateByReference(create(<<>>, r, "UGX", "MOBILE_MONEY"), r,
            [status |-> "PENDING",
             provider_transaction_id |-> IF r = "PAY-1" THEN "T1" ELSE "T2",
             provider_name |-> MtnProviderName])[r]]
  /\ webhookEvents = <<>>
  /\ eventRows = [r \in Refs |-> 0]
  /\ locks = [r \in Refs |-> FALSE]
  /\ pc = [w \in Workers |-> "done"]
  /\ guard = [w \in Workers |-> IdleGuard]
  /\ loc = [w \in Workers |-> IdleLoc]
  /\ refs = Refs
  /\ calls = 0
  /\ paymentMethods = SeededMethods
  /\ paymentRows = [r \in Refs |-> 1]
  /\ request = IdleRequest
  /\ users = <<>>
  /\ authCall = [w \in Workers |-> IdleAuth]

WebhookNext ==
  \/ \E w \in Workers : HandleWebhook_Lock(w)
  \/ \E w \in Workers : HandleWebhook_FindEvent(w)
  \/ \E w \in Workers : HandleWebhook_FastPath(w)
  \/ \E w \in Workers : HandleWebhook_FindPayment(w)
  \/ \E w \in Workers : ProcessWebhookTx_Upsert(w)
  \/ \E w \in Workers : ProcessWebhookTx_Update(w)
  \/ \E w \in Workers : ProcessWebhookTx_Fail(w)
  \/ \E ref \in refs : LeaseExpire(ref)

SpecWebhooks == InitTwoPending /\ [][WebhookNext]_vars

C37_AppliedWebhookStored ==
  [][\A w \in Workers :
       (/\ pc[w] = "wh_tx_update" /\ pc'[w] = "done"
        /\ loc'[w].result = "ok")
         => /\ payments'[loc[w].ref].status = loc[w].status
            /\ payments'[loc[w].ref].provider_transaction_id = loc[w].ptid
            /\ loc[w].ref \in DOMAIN webhookEvents'
            /\ webhookEvents'[loc[w].ref].is_processed
            /\ webhookEvents'[loc[w].ref].status = loc[w].status
            /\ loc'[w].ret = payments'[loc[w].ref]]_vars

C37_Witness ==
  \E w \in Workers :
    /\ pc[w] = "done" /\ loc[w].op = "handleWebhook" /\ loc[w].result = "ok"
    /\ loc[w].wrote /\ ~loc[w].fastPath /\ loc[w].cur = "PENDING"
    /\ Columns(payments[loc[w].ref]) = PaymentRow("FAILED", "T2", MtnProviderName)
    /\ webhookEvents[loc[w].ref] = WebhookRow("FAILED", "T2", TRUE)
    /\ loc[w].ret = payments[loc[w].ref]

\* C38: every stored WebhookEvent has a stored Payment of the same
\* reference, and no handleWebhook call that took the fast path (processed
\* event found) ends in NotFound.
C38_EventHasPayment ==
  /\ \A r \in DOMAIN webhookEvents :
       r \in DOMAIN payments /\ payments[r].reference_id = r
  /\ \A w \in Workers :
       (loc[w].op = "handleWebhook" /\ loc[w].fastPath)
         => loc[w].result # "NotFound"

C38_Witness ==
  \E w \in Workers :
    /\ pc[w] = "done" /\ loc[w].op = "handleWebhook" /\ loc[w].fastPath
    /\ loc[w].result = "ok"
    /\ loc[w].ref \in DOMAIN webhookEvents
    /\ webhookEvents[loc[w].ref].is_processed
    /\ loc[w].ret = payments[loc[w].ref]
    /\ \E r \in refs : r \notin DOMAIN payments

\* C39: every stored WebhookEvent has is_processed = TRUE, no step removes
\* an event or takes its is_processed from TRUE to FALSE, and the event
\* handleWebhook finds for its reference, when there is one, is processed.
C39_EventsAlwaysProcessed ==
  /\ [](\A r \in DOMAIN webhookEvents : webhookEvents[r].is_processed)
  /\ [][\A r \in DOMAIN webhookEvents :
          /\ r \in DOMAIN webhookEvents'
          /\ webhookEvents[r].is_processed => webhookEvents'[r].is_processed]_vars
  /\ [][\A w \in Workers :
          (/\ pc[w] = "wh_findEvent" /\ pc'[w] # pc[w]
           /\ loc[w].ref \in DOMAIN webhookEvents)
            => pc'[w] = "wh_fast"]_vars

C39_Witness ==
  \E w \in Workers :
    /\ pc[w] = "wh_fast" /\ loc[w].fastPath
    /\ loc[w].ref \in DOMAIN webhookEvents
    /\ webhookEvents[loc[w].ref].is_processed
    /\ eventRows[loc[w].ref] = 1

\* ------------------------------------------------------------- redelivery
\* The provider delivers worker w's last webhook again: the same
\* handleWebhook request, from its redisLock.  It stands for the provider's
\* retries and does not count among the MaxCalls requests.
Redeliver(w) ==
  /\ pc[w] = "done"
  /\ loc[w].op = "handleWebhook" /\ loc[w].status \in Terminal
  /\ LET prev == loc[w]
         l == [Begin(w, "handleWebhook", prev.ref, prev.status, prev.ptid)
                 EXCEPT !.repeat = (prev.result = "ok"),
                        !.heldAtLock = locks[prev.ref],
                        !.prevRet = IF prev.result = "ok" THEN prev.ret ELSE NoPayment]
     IN IF redisLock(locks, prev.ref)
          THEN /\ locks' = [locks EXCEPT ![prev.ref] = TRUE]
               /\ loc' = [loc EXCEPT ![w] =
                           [l EXCEPT !.leaseValid = TRUE,
                                     !.afterProcessed =
                                       /\ prev.ref \in DOMAIN webhookEvents
                                       /\ webhookEvents[prev.ref].is_processed]]
               /\ pc' = [pc EXCEPT ![w] = "wh_findEvent"]
          ELSE /\ loc' = [loc EXCEPT ![w] = Finish(l, "AlreadyProcessing", NoPayment)]
               /\ pc' = [pc EXCEPT ![w] = "done"]
               /\ UNCHANGED locks
  /\ UNCHANGED <<payments, webhookEvents, refs, paymentMethods, guard, paymentRows,
                 eventRows, calls, request, users, authCall>>

\* every continuation of a started request is run by the event loop
HandlerStep(w) ==
  \/ InitiatePayment_Provider(w)
  \/ InitiatePayment_Update(w)
  \/ UpdatePaymentStatus_Update(w)
  \/ HandleWebhook_FindEvent(w)
  \/ HandleWebhook_FastPath(w)
  \/ HandleWebhook_FindPayment(w)
  \/ ProcessWebhookTx_Upsert(w)
  \/ ProcessWebhookTx_Update(w)
  \/ ProcessWebhookTx_Fail(w)

RedeliveryNext ==
  \/ \E w \in Workers : CreatePayment(w)
  \/ \E w \in Workers : GetPaymentByReference(w)
  \/ \E w \in Workers : InitiatePayment_Provider(w)
  \/ \E w \in Workers : InitiatePayment_Update(w)
  \/ \E w \in Workers : UpdatePaymentStatus_Find(w)
  \/ \E w \in Workers : UpdatePaymentStatus_Update(w)
  \/ \E w \in Workers : HandleWebhook_Lock(w)
  \/ \E w \in Workers : HandleWebhook_FindEvent(w)
  \/ \E w \in Workers : HandleWebhook_FastPath(w)
  \/ \E w \in Workers : HandleWebhook_FindPayment(w)
  \/ \E w \in Workers : ProcessWebhookTx_Upsert(w)
  \/ \E w \in Workers : ProcessWebhookTx_Update(w)
  \/ \E w \in Workers : ProcessWebhookTx_Fail(w)
  \/ \E ref \in refs : LeaseExpire(ref)
  \/ \E w \in Workers : Redeliver(w)

\* Requests as in Spec, with a provider that keeps delivering again: every
\* started request runs on, the lease of a held key runs out, the provider
\* retries for ever, and the store does not fail a transaction every time.
SpecRedelivery ==
  /\ Init /\ [][RedeliveryNext]_vars
  /\ \A w \in Workers : WF_vars(HandlerStep(w))
  /\ \A w \in Workers : WF_vars(Redeliver(w))
  /\ \A w \in Workers : SF_vars(ProcessWebhookTx_Update(w))
  /\ \A ref \in Refs : WF_vars(LeaseExpire(ref))

\* C35: a webhook with SUCCESS or FAILED that the provider delivers again
\* and again does not leave its Payment in PENDING for ever: whatever was
\* processed for the reference before, the Payment leaves PENDING (the
\* webhook's status is the only one a webhook can then store, unless another
\* operation changed the Payment first).
C35_RedeliveredWebhookApplied ==
  \A w \in Workers :
    []<>~(/\ loc[w].op = "handleWebhook" /\ loc[w].status \in Terminal
          /\ loc[w].ref \in DOMAIN payments
          /\ payments[loc[w].ref].status = "PENDING")

\* ------------------------------------------- POST /payments: ValidationPipe
\* class-validator on CreatePaymentDto; a value is the JSON value of the body
MinAmount == 400

WellFormedEmails == {"customer@example.com"}

Amounts ==
  {NoAmount, [kind |-> "string", n |-> 0]}
    \cup {[kind |-> "number", n |-> k] : k \in {0 - 1, 0, 1, 399, 400, 1000}}

Dtos ==
  [amount : Amounts,
   currency : {"UGX", EmptyString, Undefined},
   payment_method : {"MOBILE_MONEY", EmptyString, Undefined},
   customer_phone : {"+256700000000", EmptyString, Undefined},
   customer_email : WellFormedEmails \cup {"customer", EmptyString, Undefined},
   unknownProperty : BOOLEAN]

isNumber(v) == v.kind = "number"

min(v, bound) == v.kind = "number" /\ v.n >= bound

isString(v) == v # Undefined

isNotEmpty(v) == v # EmptyString /\ v # Undefined

isEmail(v) == isString(v) /\ v \in WellFormedEmails

\* the properties of the dto with a failed constraint; no decorator makes
\* customer_email optional, so @IsEmail is applied to a missing one as well
validate(dto) ==
  {f \in {"amount"} :
     ~(isNumber(dto.amount) /\ min(dto.amount, MinAmount)
       /\ dto.amount.kind # "undefined")}
  \cup {f \in {"currency"} : ~(isString(dto.currency) /\ isNotEmpty(dto.currency))}
  \cup {f \in {"payment_method"} :
          ~(isString(dto.payment_method) /\ isNotEmpty(dto.payment_method))}
  \cup {f \in {"customer_phone"} :
          ~(isString(dto.customer_phone) /\ isNotEmpty(dto.customer_phone))}
  \cup {f \in {"customer_email"} : ~isEmail(dto.customer_email)}
  \cup {f \in {"unknownProperty"} : dto.unknownProperty}

\* ValidationPipe({whitelist, forbidNonWhitelisted, transform}): a
\* BadRequestException when a constraint fails, else the controller's create,
\* which calls createPayment
ValidationPipe_Transform ==
  /\ request.stage = "received"
  /\ request' =
       IF validate(request.dto) # {}
         THEN [request EXCEPT !.stage = "rejected", !.status = 400]
         ELSE [request EXCEPT !.stage = "accepted", !.handler = TRUE]
  /\ UNCHANGED <<payments, webhookEvents, eventRows, locks, pc, loc, refs, calls,
                 paymentMethods, paymentRows, guard, users, authCall>>

InitValidation ==
  /\ payments = <<>>
  /\ webhookEvents = <<>>
  /\ eventRows = [r \in Refs |-> 0]
  /\ locks = [r \in Refs |-> FALSE]
  /\ pc = [w \in Workers |-> "done"]
  /\ guard = [w \in Workers |-> IdleGuard]
  /\ loc = [w \in Workers |-> IdleLoc]
  /\ refs = {"PAY-1"}
  /\ calls = 0
  /\ paymentMethods = SeededMethods
  /\ paymentRows = [r \in Refs |-> 0]
  /\ users = <<>>
  /\ authCall = [w \in Workers |-> IdleAuth]
  /\ request \in {[IdleRequest EXCEPT !.stage = "received", !.dto = d] : d \in Dtos}

ValidationNext == ValidationPipe_Transform

ValidationSpec == InitValidation /\ [][ValidationNext]_vars

\* C31: a validated creation request with a number amount > 0, non-empty
\* string currency, payment_method and customer_phone, and customer_email
\* absent or well formed, is accepted; one with a number amount <= 0 is
\* rejected with 400 and createPayment is not called.
C31_ValidationAcceptsPositiveAmount ==
  request.stage \in {"accepted", "rejected"} =>
    LET d == request.dto IN
      /\ (/\ d.amount.kind = "number" /\ d.amount.n > 0
          /\ d.currency \notin {EmptyString, Undefined}
          /\ d.payment_method \notin {EmptyString, Undefined}
          /\ d.customer_phone \notin {EmptyString, Undefined}
          /\ d.customer_email \in WellFormedEmails \cup {Undefined}
          /\ ~d.unknownProperty)
           => request.stage = "accepted" /\ request.handler
      /\ (d.amount.kind = "number" /\ d.amount.n <= 0)
           => request.stage = "rejected" /\ request.status = 400 /\ ~request.handler

\* ----------------------------------------------------------- auth service
\* The User table: the row of id i is users[i] (autoincrement from 1).
Phones == {"+256700000001", "+256700000002"}

Emails == {"a@example.com", "b@example.com"}

UserIds == 1..3

UserRow(phone_number, email) == [phone_number |-> phone_number, email |-> email]

findByPhoneNumber(us, phoneNumber) ==
  {i \in DOMAIN us : us[i].phone_number = phoneNumber}

findByEmail(us, email) == {i \in DOMAIN us : us[i].email = email}

findById(us, id) == {i \in DOMAIN us : i = id}

\* the unique indexes of User.phone_number and User.email (a NULL email
\* collides with nothing)
createUserViolatesUnique_Never(us, phone_number, email) == FALSE

createUserViolatesUnique(us, phone_number, email) ==
  \/ \E i \in DOMAIN us : us[i].phone_number = phone_number
  \/ email # Undefined /\ \E i \in DOMAIN us : us[i].email = email

createUser(us, phone_number, email) == Append(us, UserRow(phone_number, email))

AuthCanStart(w) == authCall[w].pc = "done" /\ calls < MaxCalls

AuthFinish(c, result, error) == [c EXCEPT !.pc = "done", !.result = result, !.error = error]

\* register: findByPhoneNumber, ConflictException when a user has the number
Register_FindByPhoneNumber(w) ==
  /\ AuthCanStart(w)
  /\ \E phone_number \in Phones, email \in Emails \cup {Undefined} :
       LET c == [IdleAuth EXCEPT !.op = "register", !.phone_number = phone_number,
                                 !.email = email,
                                 !.taken =
                                   \E i \in DOMAIN users :
                                     \/ users[i].phone_number = phone_number
                                     \/ email # Undefined /\ users[i].email = email]
       IN authCall' = [authCall EXCEPT ![w] =
            IF findByPhoneNumber(users, phone_number) # {}
              THEN AuthFinish(c, "Conflict", "User with this phone number already exists")
              ELSE [c EXCEPT !.pc = IF email # Undefined THEN "reg_findByEmail"
                                                         ELSE "reg_createUser"]]
  /\ calls' = calls + 1
  /\ UNCHANGED <<payments, webhookEvents, eventRows, locks, pc, loc, refs,
                 paymentMethods, paymentRows, guard, request, users>>

\* register with an email: findByEmail, ConflictException when a user has it
Register_FindByEmail(w) ==
  /\ authCall[w].pc = "reg_findByEmail"
  /\ authCall' = [authCall EXCEPT ![w] =
       IF findByEmail(users, @.email) # {}
         THEN AuthFinish(@, "Conflict", "User with this email already exists")
         ELSE [@ EXCEPT !.pc = "reg_createUser"]]
  /\ UNCHANGED <<payments, webhookEvents, eventRows, locks, pc, loc, refs, calls,
                 paymentMethods, paymentRows, guard, request, users>>

\* register: bcrypt.hash, createUser, sign; the error of prisma when the
\* insert meets a unique index
Register_CreateUser(w) ==
  /\ authCall[w].pc = "reg_createUser"
  /\ LET c == authCall[w] IN
       IF createUserViolatesUnique(users, c.phone_number, c.email)
         THEN /\ authCall' = [authCall EXCEPT ![w] = AuthFinish(c, "StoreError", "P2002")]
              /\ UNCHANGED users
         ELSE /\ users' = createUser(users, c.phone_number, c.email)
              /\ authCall' = [authCall EXCEPT ![w] =
                   [AuthFinish(c, "ok", Undefined)
                      EXCEPT !.created = TRUE, !.user_id = Len(users) + 1]]
  /\ UNCHANGED <<payments, webhookEvents, eventRows, locks, pc, loc, refs, calls,
                 paymentMethods, paymentRows, guard, request>>

\* jwtService.verify: the payload of a token this service signed, else it
\* throws: an Error with a message, an Error without one, or a value that is
\* not an Error
Tokens ==
  [kind : {"signed"}, sub : UserIds]
    \cup [kind : {"expired", "noMessage", "notAnError"}, sub : {0}]

verify(token) ==
  CASE token.kind = "signed" -> [threw |-> FALSE, message |-> Undefined, sub |-> token.sub]
    [] token.kind = "expired" -> [threw |-> TRUE, message |-> "jwt expired", sub |-> 0]
    [] OTHER -> [threw |-> TRUE, message |-> Undefined, sub |-> 0]

\* verifyToken: jwtService.verify inside try; catch returns
\* {valid: false, error: error.message || 'Invalid token'}
VerifyToken_Verify_NoCatch(w) ==
  /\ AuthCanStart(w)
  /\ \E token \in Tokens :
       LET c == [IdleAuth EXCEPT !.op = "verifyToken", !.token = token]
           v == verify(token)
       IN authCall' = [authCall EXCEPT ![w] =
            IF v.threw
              THEN AuthFinish(c, "raised", v.message)
              ELSE [c EXCEPT !.pc = "vt_findById", !.sub = v.sub]]
  /\ calls' = calls + 1
  /\ UNCHANGED <<payments, webhookEvents, eventRows, locks, pc, loc, refs,
                 paymentMethods, paymentRows, guard, request, users>>

VerifyToken_Verify(w) ==
  /\ AuthCanStart(w)
  /\ \E token \in Tokens :
       LET c == [IdleAuth EXCEPT !.op = "verifyToken", !.token = token]
           v == verify(token)
       IN authCall' = [authCall EXCEPT ![w] =
            IF v.threw
              THEN AuthFinish(c, "returned",
                              IF v.message # Undefined THEN v.message
                                                       ELSE "Invalid token")
              ELSE [c EXCEPT !.pc = "vt_findById", !.sub = v.sub]]
  /\ calls' = calls + 1
  /\ UNCHANGED <<payments, webhookEvents, eventRows, locks, pc, loc, refs,
                 paymentMethods, paymentRows, guard, request, users>>

\* verifyToken: findById(payload.sub); 'User not found' when null, else
\* {valid: true, user_id: user.id}
VerifyToken_FindById(w) ==
  /\ authCall[w].pc = "vt_findById"
  /\ LET c == [authCall[w] EXCEPT !.stored = authCall[w].sub \in DOMAIN users] IN
       authCall' = [authCall EXCEPT ![w] =
         IF findById(users, c.sub) = {}
           THEN AuthFinish(c, "returned", "User not found")
           ELSE [AuthFinish(c, "returned", Undefined)
                   EXCEPT !.valid = TRUE, !.user_id = c.sub]]
  /\ UNCHANGED <<payments, webhookEvents, eventRows, locks, pc, loc, refs, calls,
                 paymentMethods, paymentRows, guard, request, users>>

AuthNext ==
  \/ \E w \in Workers : Register_FindByPhoneNumber(w)
  \/ \E w \in Workers : Register_FindByEmail(w)
  \/ \E w \in Workers : Register_CreateUser(w)
  \/ \E w \in Workers : VerifyToken_Verify(w)
  \/ \E w \in Workers : VerifyToken_FindById(w)

AuthSpec == Init /\ [][AuthNext]_vars

\* C32: a register call made when its phone number, or its supplied email,
\* belonged to a stored user ends in a Conflict error and stores no user;
\* and no two stored users share a phone number or an email.
C32_RegisterConflict ==
  /\ \A w \in Workers :
       (authCall[w].op = "register" /\ authCall[w].taken)
         => /\ ~authCall[w].created
            /\ authCall[w].pc = "done" => authCall[w].result = "Conflict"
  /\ \A i \in DOMAIN users, j \in DOMAIN users :
       i # j => /\ users[i].phone_number # users[j].phone_number
                /\ users[i].email # Undefined => users[i].email # users[j].email

C32_Witness ==
  \E w \in Workers :
    /\ authCall[w].op = "register" /\ authCall[w].pc = "done" /\ authCall[w].taken
    /\ authCall[w].result = "Conflict"
    /\ authCall[w].error = "User with this email already exists"
    /\ Len(users) >= 1
    /\ \A i \in DOMAIN users : users[i].phone_number # authCall[w].phone_number

\* C33: verifyToken always returns: valid with the subject as user id exactly
\* when the token verified and its subject was a stored user; otherwise not
\* valid, no user id, and as error 'User not found', the message of the
\* verification error, or 'Invalid token' when that error has no message.
C33_VerifyTokenReturns ==
  \A w \in Workers :
    (authCall[w].op = "verifyToken" /\ authCall[w].pc = "done")
      => LET c == authCall[w] IN
           /\ c.result = "returned"
           /\ c.valid <=> (c.token.kind = "signed" /\ c.stored)
           /\ c.valid => /\ c.user_id = c.token.sub /\ c.error = Undefined
                         /\ c.user_id \in DOMAIN users
           /\ ~c.valid =>
                /\ c.user_id = 0
                /\ c.error = CASE c.token.kind = "signed" -> "User not found"
                               [] c.token.kind = "expired" -> "jwt expired"
                               [] OTHER -> "Invalid token"

C33_Witness ==
  \E w \in Workers, o \in Workers :
    /\ authCall[w].op = "verifyToken" /\ authCall[w].pc = "done"
    /\ authCall[w].valid /\ authCall[w].user_id = 1
    /\ authCall[o].op = "verifyToken" /\ authCall[o].pc = "done"
    /\ ~authCall[o].valid /\ authCall[o].error = "User not found"
    /\ authCall[o].token.kind = "signed"

====
